---- MODULE Spec2Model ----
(***************************************************************************)
(* Model of musicapp/routes/auth.py: password signup, password login that  *)
(* issues a signed 60-minute JSON Web Token, and the current-user resolver *)
(* that decodes such a token.                                              *)
(*                                                                         *)
(* Strings that the code hashes are sequences of characters, so that a     *)
(* hash and a plaintext are values of one kind and can be compared.  The   *)
(* clock counts minutes, the unit of the timedelta of create_access_token. *)
(***************************************************************************)
EXTENDS Integers, Sequences, FiniteSets, TLC

VARIABLES
    db,         \* the rows of models.Users behind the database session
    nextId,     \* the primary key the store gives the next inserted row
    now,        \* datetime.utcnow(), in minutes
    ticks,      \* how many times the clock has been advanced
    issued,     \* the access token the client holds (the last one login_token
                \* returned), with the time and the row it was issued for
    request,    \* the request handled last, if the store is as it left it
    user,       \* login_token's local `user` of the last request: the row the
                \* lookup returned, if any
    response    \* the response to the request handled last

vars == <<db, nextId, now, ticks, issued, request, user, response>>

----------------------------------------------------------------------------
(* Bounds of the model *)

MaxUsers == 2

MaxTicks == 1

(* timedelta(minutes=60) *)
ACCESS_TOKEN_EXPIRE_MINUTES == 60

(* The latest time the clock can show *)
MaxClock == MaxTicks * (ACCESS_TOKEN_EXPIRE_MINUTES + 1)

----------------------------------------------------------------------------
(* Values *)

None == "None"

Usernames == {"alice", "bob"}

Passwords == {<<"a">>, <<"b">>}

Roles == {"user", "superadmin"}

Salts == {"s1"}

SECRET_KEY == "secret"

(* dict.get(key): the value, or None when the key is absent *)
Get(d, k) == IF k \in DOMAIN d THEN d[k] ELSE None

----------------------------------------------------------------------------
(* Credential hasher *)

(* Variant: the password is stored as it came *)
generate_hash_plain(password, salt) == password

(* password_context.hash(password): a bcrypt string that embeds the scheme, *)
(* the salt and the salted digest of the password.                          *)
generate_hash(password, salt) == <<"$2b$", salt>> \o password

(* password_context.verify(plain_text, hash): hash the plaintext again with *)
(* the salt the stored hash embeds and compare.                             *)
verify_password(hashed_pass, plain_text) ==
    /\ Len(hashed_pass) >= 2
    /\ hashed_pass[1] = "$2b$"
    /\ hashed_pass = generate_hash(plain_text, hashed_pass[2])

----------------------------------------------------------------------------
(* Token codec *)

(* jwt.encode(claims, key): the claims, signed with the key *)
JwtEncode(claims, key) == [kind |-> "jws", key |-> key, payload |-> claims]

(* jwt.decode(token, key) at time t: JWTError for a string that is no JWS,  *)
(* for a signature made with another key and for an exp claim in the past.  *)
JwtDecode(token, key, t) ==
    IF token.kind # "jws" THEN [ok |-> FALSE, error |-> "JWTError"]
    ELSE IF token.key # key THEN [ok |-> FALSE, error |-> "JWTError"]
    ELSE IF "exp" \in DOMAIN token.payload /\ token.payload.exp < t
         THEN [ok |-> FALSE, error |-> "ExpiredSignatureError"]
    ELSE [ok |-> TRUE, payload |-> token.payload]

(* Variant: only the username goes into the token *)
create_access_token_username_only(data, t) ==
    JwtEncode([username |-> data.username,
               exp |-> t + ACCESS_TOKEN_EXPIRE_MINUTES], SECRET_KEY)

(* Variant: timedelta(hours=60) *)
create_access_token_hours(data, t) ==
    LET expire == t + ACCESS_TOKEN_EXPIRE_MINUTES * 60
        to_encode == [k \in DOMAIN data \cup {"exp"} |->
                         IF k = "exp" THEN expire ELSE data[k]]
    IN  JwtEncode(to_encode, SECRET_KEY)

(* create_access_token(data), called at time t *)
create_access_token(data, t) ==
    LET expire == t + ACCESS_TOKEN_EXPIRE_MINUTES
        to_encode == [k \in DOMAIN data \cup {"exp"} |->
                         IF k = "exp" THEN expire ELSE data[k]]
    IN  JwtEncode(to_encode, SECRET_KEY)

----------------------------------------------------------------------------
(* Current-user resolver *)

credentials_exception ==
    [status |-> 401, detail |-> "Could not validate credentials",
     headers |-> [name \in {"WWW-Authenticate"} |-> "Bearer"]]

(* Variant: the check for a missing username is left out *)
get_current_user_no_username_check(token, t) ==
    LET decoded == JwtDecode(token, SECRET_KEY, t)
    IN  IF ~decoded.ok THEN credentials_exception
        ELSE [status |-> 200,
              body |-> [username |-> Get(decoded.payload, "username"),
                        id |-> Get(decoded.payload, "id"),
                        role |-> Get(decoded.payload, "role")]]

(* Variant: the resolver loads the row of the token's id and answers with *)
(* the row's role, or 401 when the row is gone.                           *)
get_current_user_from_store(token, t) ==
    LET decoded == JwtDecode(token, SECRET_KEY, t)
        rows == {u \in db : "id" \in DOMAIN decoded.payload
                             /\ u.id = decoded.payload.id}
    IN  IF ~decoded.ok THEN credentials_exception
        ELSE IF Get(decoded.payload, "username") = None THEN credentials_exception
        ELSE IF rows = {} THEN credentials_exception
        ELSE [status |-> 200,
              body |-> [username |-> Get(decoded.payload, "username"),
                        id |-> Get(decoded.payload, "id"),
                        role |-> (CHOOSE u \in rows : TRUE).role]]

(* get_current_user(token), called at time t: the identity, or the 401.  *)
(* The dict built from the claims is never None, so the last check of the *)
(* function never raises.                                                 *)
get_current_user(token, t) ==
    LET decoded == JwtDecode(token, SECRET_KEY, t)
    IN  IF ~decoded.ok THEN credentials_exception
        ELSE IF Get(decoded.payload, "username") = None THEN credentials_exception
        ELSE [status |-> 200,
              body |-> [username |-> Get(decoded.payload, "username"),
                        id |-> Get(decoded.payload, "id"),
                        role |-> Get(decoded.payload, "role")]]

----------------------------------------------------------------------------
(* Login *)

(* db.query(models.Users).filter(username == ...): the matching rows *)
UsersNamed(username) == {u \in db : u.username = username}

(* Variant: an unknown username gets an answer of its own *)
login_response_user_not_found(found, password, t) ==
    IF found = {} THEN [status |-> 404, detail |-> "User not found"]
    ELSE IF \E u \in found : verify_password(u.passwordHash, password)
    THEN LET u == CHOOSE u \in found : TRUE
         IN  [status |-> 200,
              body |-> [access_token |->
                            create_access_token(
                                [username |-> u.username, id |-> u.id,
                                 role |-> u.role], t),
                        token_type |-> "bearer"]]
    ELSE [status |-> 401, detail |-> "Invalid username or password"]

(* Variant: the password is tried against every row of the username *)
login_response_any_row(found, password, t) ==
    LET rows == {u \in db : \E f \in found : u.username = f.username}
    IN  IF \E u \in rows : verify_password(u.passwordHash, password)
        THEN LET u == CHOOSE u \in rows : verify_password(u.passwordHash, password)
             IN  [status |-> 200,
                  body |-> [access_token |->
                                create_access_token(
                                    [username |-> u.username, id |-> u.id,
                                     role |-> u.role], t),
                            token_type |-> "bearer"]]
        ELSE [status |-> 401, detail |-> "Invalid username or password"]

(* The body of login_token after the lookup: `found` is the set holding the *)
(* row that .first() returned, or the empty set for None.                   *)
login_response(found, password, t) ==
    IF \E u \in found : verify_password(u.passwordHash, password)
    THEN LET u == CHOOSE u \in found : TRUE
         IN  [status |-> 200,
              body |-> [access_token |->
                            create_access_token(
                                [username |-> u.username, id |-> u.id,
                                 role |-> u.role], t),
                        token_type |-> "bearer"]]
    ELSE [status |-> 401, detail |-> "Invalid username or password"]

(* .first(): no row, or one of the matching rows (no ORDER BY is given) *)
FirstRows(username) ==
    IF UsersNamed(username) = {} THEN {{}}
    ELSE {{u} : u \in UsersNamed(username)}

(* POST /token *)
login_token(username, password) ==
    \E found \in FirstRows(username) :
        LET r == login_response(found, password, now)
            u == CHOOSE u \in found : TRUE
            grant == [token |-> r.body.access_token, iat |-> now,
                      username |-> u.username, id |-> u.id, role |-> u.role]
        IN  /\ user' = found
            /\ request' = [op |-> "login", username |-> username,
                           password |-> password]
            /\ response' = r
            /\ issued' = IF r.status = 200 THEN {grant} ELSE issued
            /\ UNCHANGED <<db, nextId, now, ticks>>

----------------------------------------------------------------------------
(* Signup *)

(* db.add(db_user); db.commit(): the store takes the row as it is; it puts *)
(* no constraint on the username.                                          *)
Commit(rows, db_user) == rows \cup {db_user}

(* Variant: the row is inserted before the passwords are compared *)
create_user_insert_first(username, password, confirmation, role, salt) ==
    /\ request' = [op |-> "signup", username |-> username, password |-> password,
                   confirmation |-> confirmation, role |-> role]
    /\ nextId <= MaxUsers
    /\ LET hash_pass == generate_hash(password, salt)
           db_user == [id |-> nextId, username |-> username,
                       passwordHash |-> hash_pass, role |-> role]
       IN  /\ db' = Commit(db, db_user)
           /\ nextId' = nextId + 1
           /\ response' = IF password = confirmation
                          THEN [status |-> 200, body |-> db_user]
                          ELSE [status |-> 401, detail |-> "Password Don't Match"]
    /\ user' = {}
    /\ UNCHANGED <<now, ticks, issued>>

(* Variant: a signup replaces the rows that have its username *)
create_user_upsert(username, password, confirmation, role, salt) ==
    /\ request' = [op |-> "signup", username |-> username, password |-> password,
                   confirmation |-> confirmation, role |-> role]
    /\ IF password = confirmation
       THEN /\ nextId <= MaxUsers
            /\ LET hash_pass == generate_hash(password, salt)
                   db_user == [id |-> nextId, username |-> username,
                               passwordHash |-> hash_pass, role |-> role]
               IN  /\ db' = Commit(db \ {u \in db : u.username = username}, db_user)
                   /\ nextId' = nextId + 1
                   /\ response' = [status |-> 200, body |-> db_user]
       ELSE /\ response' = [status |-> 401, detail |-> "Password Don't Match"]
            /\ UNCHANGED <<db, nextId>>
    /\ user' = {}
    /\ UNCHANGED <<now, ticks, issued>>

(* Variant: a role outside the known ones is stored as "user" *)
create_user_role_whitelist(username, password, confirmation, role, salt) ==
    /\ request' = [op |-> "signup", username |-> username, password |-> password,
                   confirmation |-> confirmation, role |-> role]
    /\ IF password = confirmation
       THEN /\ nextId <= MaxUsers
            /\ LET hash_pass == generate_hash(password, salt)
                   db_user == [id |-> nextId, username |-> username,
                               passwordHash |-> hash_pass,
                               role |-> IF role \in {"user", "admin"}
                                        THEN role ELSE "user"]
               IN  /\ db' = Commit(db, db_user)
                   /\ nextId' = nextId + 1
                   /\ response' = [status |-> 200, body |-> db_user]
       ELSE /\ response' = [status |-> 401, detail |-> "Password Don't Match"]
            /\ UNCHANGED <<db, nextId>>
    /\ user' = {}
    /\ UNCHANGED <<now, ticks, issued>>

(* POST /signup; the salt is the one bcrypt draws for this hash *)
create_user(username, password, confirmation, role, salt) ==
    /\ request' = [op |-> "signup", username |-> username, password |-> password,
                   confirmation |-> confirmation, role |-> role]
    /\ IF password = confirmation
       THEN /\ nextId <= MaxUsers
            /\ LET hash_pass == generate_hash(password, salt)
                   db_user == [id |-> nextId, username |-> username,
                               passwordHash |-> hash_pass, role |-> role]
               IN  /\ db' = Commit(db, db_user)
                   /\ nextId' = nextId + 1
                   /\ response' = [status |-> 200, body |-> db_user]
       ELSE /\ response' = [status |-> 401, detail |-> "Password Don't Match"]
            /\ UNCHANGED <<db, nextId>>
    /\ user' = {}
    /\ UNCHANGED <<now, ticks, issued>>

----------------------------------------------------------------------------
(* Requests to a protected endpoint *)

(* Tokens a caller can present besides the ones login_token issued *)
OtherTokens ==
    { [kind |-> "garbage"],
      JwtEncode([username |-> "alice", id |-> 1, role |-> "superadmin",
                 exp |-> MaxClock + ACCESS_TOKEN_EXPIRE_MINUTES], "other"),
      JwtEncode([id |-> 1, role |-> "user",
                 exp |-> MaxClock + ACCESS_TOKEN_EXPIRE_MINUTES], SECRET_KEY),
      JwtEncode([username |-> "bob", id |-> 2, role |-> "user"], SECRET_KEY) }

PresentableTokens == {g.token : g \in issued} \cup OtherTokens

(* A protected endpoint resolving Depends(get_current_user) *)
resolve_user(token) ==
    /\ request' = [op |-> "resolve", token |-> token]
    /\ response' = get_current_user(token, now)
    /\ user' = {}
    /\ UNCHANGED <<db, nextId, now, ticks, issued>>

----------------------------------------------------------------------------
(* Environment *)

(* Time passes: the lifetime of a token, or a minute more *)
Delays == {ACCESS_TOKEN_EXPIRE_MINUTES, ACCESS_TOKEN_EXPIRE_MINUTES + 1}

Tick(d) ==
    /\ ticks < MaxTicks
    /\ ticks' = ticks + 1
    /\ now' = now + d
    /\ UNCHANGED <<db, nextId, issued, request, user, response>>

(* The rows that the token the client holds was issued for *)
TokenRows == {u \in db : \E g \in issued : u.id = g.id}

(* Another party with access to the store deletes the row of the token *)
ExternalDelete ==
    /\ \E u \in TokenRows : db' = db \ {u}
    /\ request' = [op |-> "none"]
    /\ user' = {}
    /\ response' = [status |-> 0]
    /\ UNCHANGED <<nextId, now, ticks, issued>>

(* Another party with access to the store changes the role of that row *)
ExternalSetRole ==
    /\ \E u \in TokenRows, r \in Roles :
          /\ r # u.role
          /\ db' = (db \ {u}) \cup {[u EXCEPT !.role = r]}
    /\ request' = [op |-> "none"]
    /\ user' = {}
    /\ response' = [status |-> 0]
    /\ UNCHANGED <<nextId, now, ticks, issued>>

----------------------------------------------------------------------------
Init ==
    /\ db = {}
    /\ nextId = 1
    /\ now = 0
    /\ ticks = 0
    /\ issued = {}
    /\ request = [op |-> "none"]
    /\ user = {}
    /\ response = [status |-> 0]

Login == \E username \in Usernames, password \in Passwords :
             login_token(username, password)

Signup == \E username \in Usernames, password \in Passwords,
             confirmation \in Passwords, role \in Roles, salt \in Salts :
             create_user(username, password, confirmation, role, salt)

Resolve == \E token \in PresentableTokens : resolve_user(token)

Advance == \E d \in Delays : Tick(d)

Next == Login \/ Signup \/ Resolve \/ Advance

Spec == Init /\ [][Next]_vars

NextExt == Login \/ Signup \/ Resolve \/ Advance \/ ExternalDelete \/ ExternalSetRole

SpecExt == Init /\ [][NextExt]_vars

----------------------------------------------------------------------------
(* Properties *)

(* The times at which a token can be looked at *)
Times == 0 .. (MaxClock + ACCESS_TOKEN_EXPIRE_MINUTES + 1)

InvalidLogin == [status |-> 401, detail |-> "Invalid username or password"]

(* C1: a login with a username that has no row, and a login with the       *)
(* username of a row whose hash the password does not verify against, both *)
(* get the same response: 401 "Invalid username or password", which holds  *)
(* no token.                                                               *)
C1_LoginFailuresIdentical ==
    request.op = "login" =>
        /\ UsersNamed(request.username) = {} => response = InvalidLogin
        /\ (/\ user # {}
            /\ \A u \in user : ~verify_password(u.passwordHash, request.password))
               => response = InvalidLogin

C1_Witness ==
    /\ request.op = "login"
    /\ user # {}
    /\ \A u \in user : ~verify_password(u.passwordHash, request.password)
    /\ response.status = 401

C3_MismatchLeavesStore ==
    [][\A username \in Usernames, password \in Passwords,
          confirmation \in Passwords, role \in Roles, salt \in Salts :
          (/\ password # confirmation
           /\ create_user(username, password, confirmation, role, salt))
          => /\ db' = db
             /\ response' = [status |-> 401, detail |-> "Password Don't Match"]
      ]_vars

C3_Witness ==
    /\ request.op = "signup"
    /\ request.password # request.confirmation
    /\ response.status = 401
    /\ db # {}

(* C4: a signup whose password equals its confirmation adds exactly one row *)
(* to the store, whatever the store held; the row has the requested         *)
(* username, its passwordHash verifies against the plaintext password and   *)
(* is not the plaintext password.                                           *)
C4_SignupAddsOneHashedRow ==
    [][\A username \in Usernames, password \in Passwords, role \in Roles,
          salt \in Salts :
          create_user(username, password, password, role, salt)
          => /\ response'.status = 200
             /\ \E row \in db' \ db :
                  /\ db' = db \cup {row}
                  /\ Cardinality(db') = Cardinality(db) + 1
                  /\ row.username = username
                  /\ verify_password(row.passwordHash, password)
                  /\ row.passwordHash # password
      ]_vars

C4_Witness ==
    /\ request.op = "signup"
    /\ request.password = request.confirmation
    /\ response.status = 200
    /\ Cardinality(db) = 2
    /\ response.body \in db
    /\ verify_password(response.body.passwordHash, request.password)

(* C5: a token expires 60 minutes after create_access_token issued it:     *)
(* decoding it later than that fails, the resolver answers 401 for it, and *)
(* no request but a successful login changes the token a client holds.     *)
C5_TokenExpiresAfterAnHour ==
    /\ [](\A g \in issued :
            /\ Get(g.token.payload, "exp") = g.iat + 60
            /\ \A t \in Times :
                 t > g.iat + 60 =>
                    /\ ~JwtDecode(g.token, SECRET_KEY, t).ok
                    /\ get_current_user(g.token, t).status = 401)
    /\ [][/\ \A g \in issued :
               (now > g.iat + 60 /\ resolve_user(g.token))
               => response'.status = 401
          /\ issued' # issued => (request'.op = "login" /\ response'.status = 200)
         ]_vars

C5_Witness ==
    /\ request.op = "resolve"
    /\ response.status = 401
    /\ \E g \in issued : /\ request.token = g.token
                         /\ now = g.iat + 61

(* What makes a token acceptable at time t: a JWS signed with the secret   *)
(* key, no exp claim in the past, and a username among its claims.         *)
Acceptable(token, t) ==
    /\ token.kind = "jws"
    /\ token.key = SECRET_KEY
    /\ "exp" \in DOMAIN token.payload => token.payload.exp >= t
    /\ "username" \in DOMAIN token.payload
    /\ token.payload.username # None

(* C6: the resolver returns an identity only for a token that is signed    *)
(* with the key, unexpired and carries a username; for every other token   *)
(* it answers 401 with WWW-Authenticate: Bearer and returns no identity.    *)
C6_ResolverRejectsBadTokens ==
    [][\A token \in PresentableTokens :
          resolve_user(token)
          => /\ response'.status = 200 => Acceptable(token, now)
             /\ ~Acceptable(token, now)
                => /\ response'.status = 401
                   /\ "body" \notin DOMAIN response'
                   /\ response'.headers["WWW-Authenticate"] = "Bearer"
      ]_vars

C6_Witness ==
    /\ request.op = "resolve"
    /\ request.token.kind = "jws"
    /\ request.token.key = SECRET_KEY
    /\ "username" \notin DOMAIN request.token.payload
    /\ response.status = 401

(* C7: no request modifies or deletes a row: login and token resolution    *)
(* leave the store unchanged, and the only change to the store is the one  *)
(* row a successful signup inserts.                                        *)
C7_StoreOnlyGrowsBySignup ==
    [][/\ db \subseteq db'
       /\ db' # db => /\ request'.op = "signup"
                      /\ response'.status = 200
                      /\ Cardinality(db') = Cardinality(db) + 1
       /\ (Login \/ Resolve) => db' = db
      ]_vars

C7_Witness ==
    /\ Cardinality(db) = 2
    /\ request.op = "login"
    /\ response.status = 200

(* C8: the resolver does not look at the store: the token of a successful  *)
(* login resolves to the username, id and role it was issued with for all  *)
(* of its 60 minutes, also after the row was deleted or its role changed.  *)
C8_TokenOutlivesRow ==
    \A g \in issued :
        LET identity == [username |-> g.username, id |-> g.id, role |-> g.role]
        IN  /\ now <= g.iat + 60 =>
                get_current_user(g.token, now) = [status |-> 200, body |-> identity]
            /\ (/\ request.op = "resolve"
                /\ request.token = g.token
                /\ response.status = 200) => response.body = identity

C8_Witness ==
    /\ request.op = "resolve"
    /\ response.status = 200
    /\ \E g \in issued :
         /\ request.token = g.token
         /\ response.body.role = g.role
         /\ \A u \in db : u.id = g.id => u.role # g.role
         /\ now > g.iat

(* C9: signup stores the role the caller asked for, whatever it is, and a  *)
(* later successful login as that user puts that role into the token: the  *)
(* row of a signup carries the requested role, no row changes afterwards,  *)
(* and the token of a login carries the role of the row it was given for.  *)
C9_RoleStoredVerbatim ==
    /\ [](/\ (request.op = "signup" /\ request.password = request.confirmation)
             => /\ response.status = 200
                /\ response.body \in db
                /\ response.body.role = request.role
          /\ (request.op = "login" /\ response.status = 200)
             => \E u \in db :
                  /\ u \in user
                  /\ "id" \in DOMAIN response.body.access_token.payload
                  /\ response.body.access_token.payload.id = u.id
                  /\ Get(response.body.access_token.payload, "role") = u.role)
    /\ [][\A u \in db : u \in db']_vars

C9_Witness ==
    /\ request.op = "login"
    /\ response.status = 200
    /\ response.body.access_token.payload.role = "superadmin"
    /\ \E u \in db : /\ u.id = response.body.access_token.payload.id
                     /\ u.role = "superadmin"

(* C10: a signup also inserts when a row with the same username exists;    *)
(* with several rows of one username, login checks the password against    *)
(* the row the lookup returned only: it succeeds, with that row's id and   *)
(* role in the token, iff the password verifies against that row, and the  *)
(* password of another row of that username gets 401.                      *)
C10_DuplicateUsernames ==
    /\ [](request.op = "login" /\ UsersNamed(request.username) # {}
          => /\ Cardinality(user) = 1
             /\ \A f \in user :
                  /\ f \in UsersNamed(request.username)
                  /\ response.status = 200
                     <=> verify_password(f.passwordHash, request.password)
                  /\ response.status = 200
                     => /\ Get(response.body.access_token.payload, "id") = f.id
                        /\ Get(response.body.access_token.payload, "role") = f.role
                  /\ ~verify_password(f.passwordHash, request.password)
                     => response = InvalidLogin)
    /\ [][\A username \in Usernames, password \in Passwords, role \in Roles,
             salt \in Salts :
             (/\ UsersNamed(username) # {}
              /\ create_user(username, password, password, role, salt))
             => /\ response'.status = 200
                /\ Cardinality({u \in db' : u.username = username})
                     = Cardinality(UsersNamed(username)) + 1
         ]_vars

C10_Witness ==
    /\ request.op = "login"
    /\ response.status = 401
    /\ \E f \in user :
         \E other \in UsersNamed(request.username) \ {f} :
            verify_password(other.passwordHash, request.password)

====
